---- MODULE Spec2Model ----
(***************************************************************************)
(* Model of run_sql_connectorx/server.py: the run_sql tool handler         *)
(* (handle_call_tool), the lazy batch generator (_iter_record_batches),    *)
(* the native stderr capture (_StderrCapture) with its reader thread, and  *)
(* the two batch writers (_write_csv_batches, _write_parquet_batches).     *)
(*                                                                         *)
(* The main thread is either in the handler (pc) or, while the handler     *)
(* pulls a batch, in the generator (gen).  The reader threads of the two   *)
(* capture scopes run concurrently with it.                                *)
(***************************************************************************)
EXTENDS Integers, Sequences, FiniteSets, TLC

\* ---------------------------------------------------------------- bounds
\* Elements one query's stream may produce.
MaxElems == 2
\* Bytes of diagnostic text the engine may write to fd 2 in one export.
MaxDiag == 2
\* Calls of the run_sql tool in one behaviour.
MaxCalls == 2
\* Bytes a pipe holds before a further write to it blocks (the kernel's pipe
\* buffer, scaled down so that MaxDiag bytes do not fit).
PipeCap == 1

\* ---------------------------------------------------------------- data
\* as_py() of a null cell (None).
Null == -1

\* os.read(self._read_fd, 4096)
ReadMax == 4096

SchemaA == <<[name |-> "id", type |-> "int"], [name |-> "name", type |-> "text"]>>
SchemaB == <<[name |-> "name", type |-> "text"], [name |-> "id", type |-> "int"]>>

Batch(s, rs) == [kind |-> "batch", schema |-> s, rows |-> rs]
Table(s, rs) == [kind |-> "table", schema |-> s, rows |-> rs]
Other == [kind |-> "other", schema |-> <<>>, rows |-> <<>>]

\* What the engine's stream may yield: record batches (one of them without
\* rows, one of another schema), a whole-result table, or something else.
Elements ==
  { Batch(SchemaA, <<>>),
    Batch(SchemaA, << <<1, Null>>, <<2, 5>> >>),
    Batch(SchemaB, << <<7, 3>> >>),
    Table(SchemaA, << <<1, 4>>, <<2, 5>>, <<3, 6>> >>),
    Other }

\* batch_size values a request may carry.
BatchSizes == {2}

\* --csv-token-threshold values the server may be started with.
Thresholds == {-1, 0, 14}

\* The k-th byte the engine writes to the error stream (a Rust panic text).
DiagByte(k) == IF k % 2 = 1 THEN "p" ELSE "!"

\* str(e) of the failures the engine and the writers raise.
OpenErrText == <<"open failed">>
IterErrText == <<"iteration failed">>
WriteErrText == <<"write failed">>
UnlinkErrText == <<"unlink failed">>
ReadErrText == <<"no such sql file">>

\* ---------------------------------------------------------------- helpers
RECURSIVE Flatten(_)
Flatten(ss) == IF ss = <<>> THEN <<>> ELSE Head(ss) \o Flatten(Tail(ss))

Min(a, b) == IF a < b THEN a ELSE b

\* True when sub occurs in s as a contiguous slice.
Contains(s, sub) ==
  \E i \in 1..(Len(s) + 1) :
    /\ i + Len(sub) - 1 <= Len(s)
    /\ SubSeq(s, i, i + Len(sub) - 1) = sub

\* bytes.decode("utf-8", errors="replace") over the model's byte alphabet:
\* the ASCII bytes decode to themselves, any other byte to U+FFFD.
DecodeByte(b) == IF b \in {"p", "!", "T"} THEN b ELSE "\\ufffd"
Decode(bs) == [i \in DOMAIN bs |-> DecodeByte(bs[i])]

\* [f.name for f in schema] / table.schema.names
Names(schema) == [i \in DOMAIN schema |-> schema[i].name]

\* csv.writer: str() of each value, None as the empty field.
FormatValue(v) == IF v = Null THEN "" ELSE ToString(v)

RECURSIVE JoinFields(_)
JoinFields(fs) ==
  IF fs = <<>> THEN ""
  ELSE IF Len(fs) = 1 THEN Head(fs)
  ELSE Head(fs) \o "," \o JoinFields(Tail(fs))

\* One line as csv.writer.writerow emits it (no field of the model's
\* alphabet needs quoting), with the writer's \r\n terminator.
FormatRow(values) ==
  JoinFields([i \in DOMAIN values |-> FormatValue(values[i])]) \o "\r\n"
FormatHeader(names) == JoinFields(names) \o "\r\n"

\* len(encoder.encode(line)) for the tiktoken encoder, which is not part of
\* this repository: one token per character of the formatted line.
Encode(line) == Len(line)

\* _line_tokens
LineTokens(encoder, line) == IF encoder THEN Encode(line) ELSE 0

RECURSIVE Chunks(_, _)
\* Table.to_batches(max_chunksize = n): consecutive slices of at most n rows.
Chunks(rs, n) ==
  IF rs = <<>> THEN <<>>
  ELSE <<SubSeq(rs, 1, Min(n, Len(rs)))>> \o Chunks(SubSeq(rs, Min(n, Len(rs)) + 1, Len(rs)), n)

ToBatches(t, n) == [i \in DOMAIN Chunks(t.rows, n) |-> Batch(t.schema, Chunks(t.rows, n)[i])]

\* ---------------------------------------------------------------- files
NoFile == [exists |-> FALSE, fmt |-> "none", lines |-> <<>>, schema |-> <<>>,
           groups |-> <<>>, footer |-> FALSE]
\* A delimited-text file left at the destination by something else.
StaleFile == [exists |-> TRUE, fmt |-> "csv", lines |-> <<"old\r\n">>, schema |-> <<>>,
              groups |-> <<>>, footer |-> FALSE]
\* out.open("w") / out.open("a") on a missing path: a zero-byte text file.
EmptyText == [exists |-> TRUE, fmt |-> "csv", lines |-> <<>>, schema |-> <<>>,
              groups |-> <<>>, footer |-> FALSE]
\* st_size > 0
NonEmpty(f) == f.exists /\ (f.lines # <<>> \/ f.fmt = "parquet")

\* pq.ParquetWriter(where, schema): a new file, no row group, no footer yet.
NewParquet(s) == [exists |-> TRUE, fmt |-> "parquet", lines |-> <<>>, schema |-> s,
                  groups |-> <<>>, footer |-> FALSE]

\* ---------------------------------------------------------------- requests
Request(args, sf, op, fmt, bs) ==
  [args |-> args, sql_file |-> sf, output_path |-> op, output_format |-> fmt,
   batch_size |-> bs]

\* sql_file: "none" (argument missing), "nofile" (unreadable), "blank"
\* (whitespace only), "ok".
Requests ==
  { Request(TRUE, "ok", TRUE, f, b) : f \in {"csv", "parquet"}, b \in BatchSizes }
  \cup { Request(FALSE, "none", FALSE, "csv", 2),
         Request(TRUE, "none", TRUE, "csv", 2),
         Request(TRUE, "ok", FALSE, "csv", 2),
         Request(TRUE, "ok", TRUE, "xml", 2),
         Request(TRUE, "blank", TRUE, "parquet", 2),
         Request(TRUE, "nofile", TRUE, "csv", 2) }

NoRequest == Request(FALSE, "none", FALSE, "none", 0)

\* if not sql_file or not output_path or output_format not in (...)
ShapeOk(r) ==
  /\ r.sql_file # "none"
  /\ r.output_path
  /\ r.output_format \in {"csv", "parquet"}

NoResult == [kind |-> "none", total |-> 0, msg |-> <<>>]
OkResult == [kind |-> "ok", total |-> 0, msg |-> <<>>]
TokResult(n) == [kind |-> "ok_tokens", total |-> n, msg |-> <<>>]
WarnResult(n) == [kind |-> "ok_too_many", total |-> n, msg |-> <<>>]
ErrResult(m) == [kind |-> "error", total |-> 0, msg |-> <<"Error: ">> \o m]
MissingArgs == [kind |-> "missing_arguments", total |-> 0, msg |-> <<>>]

IsSuccess(r) == r.kind \in {"ok", "ok_tokens", "ok_too_many"}

\* ---------------------------------------------------------------- state
VARIABLES
  calls,        \* run_sql calls made so far
  threshold,    \* run_server._csv_token_threshold
  file,         \* what is at the destination path
  dirExists,    \* whether the destination's parent directory exists
  req,          \* arguments of the current call
  pc,           \* where the handler is
  gen,          \* where the generator _iter_record_batches is
  outBound,     \* whether the handler's local `out` is bound
  cur,          \* the batch the writer holds
  pending,      \* chunks of a table the generator has still to yield
  headerWritten,\* _write_csv_batches: header_written
  tokens,       \* _write_csv_batches: tokens_total
  pqWriter,     \* _write_parquet_batches: writer ("none", "open", "closed")
  exc,          \* str(e) of the exception the handler caught
  genexc,       \* exception leaving the generator through __exit__, or <<>>
  result,       \* what the handler returned
  cap,          \* the two _StderrCapture scopes, their pipes and fd 2
  src,          \* elements the engine's stream has produced in this call
  diag,         \* bytes the engine wrote to fd 2 during the failing call
  hdrWrites,    \* header rows written by this call
  engineCalls,  \* cx.read_sql calls of this call
  failure,      \* where the export's failure was raised
  cleanup,      \* outcome of the handler's cleanup deletion
  pre,          \* destination and parent directory as the call found them
  prev,         \* the previous call: request, stream, outcome, destination
  encodeCalls,  \* encoder.encode calls of this call
  loaded,       \* tiktoken has been imported and its encoding fetched
  pqCloses,     \* writer.close() calls of this call
  stale         \* the destination still holds what this call found there

vars == <<calls, threshold, file, dirExists, req, pc, gen, outBound, cur, pending,
          headerWritten, tokens, pqWriter, exc, genexc, result, cap, src, diag,
          hdrWrites, engineCalls, failure, cleanup, pre, prev,
                 encodeCalls, loaded, pqCloses, stale>>

Scopes == {1, 2}
PipeOf(i) == IF i = 1 THEN "pipe1" ELSE "pipe2"

\* States of the handler in which it waits for the generator's next batch.
Pulling == {"pull_first", "csv_pull", "pq_pull"}

NoBatch == Batch(<<>>, <<>>)

\* _StderrCapture.__init__ for both scopes; fd 2 is the process's stderr.
CapInit ==
  [fd2 |-> "stderr",
   orig |-> [i \in Scopes |-> "none"],
   rfd |-> [i \in Scopes |-> FALSE],
   wfd |-> [i \in Scopes |-> FALSE],
   pipe |-> [i \in Scopes |-> <<>>],
   buf |-> [i \in Scopes |-> <<>>],
   stop |-> [i \in Scopes |-> FALSE],
   reader |-> [i \in Scopes |-> "none"]]

Init ==
  /\ calls = 0
  /\ threshold \in Thresholds
  /\ file \in {NoFile, StaleFile}
  /\ dirExists = file.exists
  /\ req = NoRequest
  /\ pc = "idle"
  /\ gen = "none"
  /\ outBound = FALSE
  /\ cur = NoBatch
  /\ pending = <<>>
  /\ headerWritten = FALSE
  /\ tokens = 0
  /\ pqWriter = "none"
  /\ exc = <<>>
  /\ genexc = <<>>
  /\ result = NoResult
  /\ cap = CapInit
  /\ src = <<>>
  /\ diag = <<>>
  /\ hdrWrites = 0
  /\ engineCalls = 0
  /\ failure = "none"
  /\ cleanup = "none"
  /\ pre = [file |-> file, dirExists |-> dirExists]
  /\ prev = [req |-> NoRequest, src |-> <<>>, ok |-> FALSE, file |-> NoFile]
  /\ encodeCalls = 0
  /\ loaded = FALSE
  /\ pqCloses = 0
  /\ stale = FALSE

\* ---------------------------------------------------------------- capture
\* __enter__: dup(2), pipe(), dup2(write_fd, 2), start the reader thread.
Enter(c, i) ==
  [c EXCEPT !.orig[i] = c.fd2, !.rfd[i] = TRUE, !.wfd[i] = TRUE,
            !.pipe[i] = <<>>, !.buf[i] = <<>>, !.stop[i] = FALSE,
            !.fd2 = PipeOf(i), !.reader[i] = "check"]

\* A capture object that has been torn down and whose thread has ended is
\* garbage: nothing reads its buffer or its pipe again.
Forget(c, i) ==
  IF c.orig[i] = "none" /\ ~c.rfd[i] /\ c.reader[i] = "done"
    THEN [c EXCEPT !.buf[i] = <<>>, !.pipe[i] = <<>>]
    ELSE c

\* __exit__ up to the join: close(write_fd), stop_event.set().
ExitBegin(c, i) == [c EXCEPT !.wfd[i] = FALSE, !.stop[i] = TRUE]

\* The __exit__ that closes its descriptors and leaves fd 2 on the pipe.
ExitFinish_noRestore(c, i) ==
  Forget([c EXCEPT !.orig[i] = "none", !.rfd[i] = FALSE], i)

\* __exit__ after the join returned (the thread ended or 0.5 s passed):
\* dup2(orig_fd, 2), close(orig_fd), close(read_fd), fields to None.
ExitFinish(c, i) ==
  Forget([c EXCEPT !.fd2 = c.orig[i], !.orig[i] = "none", !.rfd[i] = FALSE], i)

\* get_text
GetText(c, i) == IF c.buf[i] = <<>> THEN <<>> ELSE Decode(Flatten(c.buf[i]))

\* A write to file descriptor 2 would block: the pipe it goes to is full.
Fd2Full(c) ==
  \/ c.fd2 = "pipe1" /\ Len(c.pipe[1]) >= PipeCap
  \/ c.fd2 = "pipe2" /\ Len(c.pipe[2]) >= PipeCap

\* The join that waits for the thread's end however long it takes.
JoinReturns_untimed(c, i) == c.reader[i] = "done"

\* self._thread.join(timeout=0.5) returns when the thread has ended or the
\* half second has passed: whatever the reader is doing.
JoinReturns(c, i) == c.reader[i] \in {"check", "read", "done"}

\* A write to file descriptor 2: into the pipe it is redirected to, if any.
WriteFd2(c, bytes) ==
  IF c.fd2 = "stderr" THEN c
  ELSE IF c.fd2 = "pipe1" THEN [c EXCEPT !.pipe[1] = @ \o bytes]
  ELSE [c EXCEPT !.pipe[2] = @ \o bytes]

\* Open descriptors of pipe i's write end: write_fd, fd 2, saved originals.
WriteEnds(c, i) ==
  (IF c.wfd[i] THEN 1 ELSE 0) + (IF c.fd2 = PipeOf(i) THEN 1 ELSE 0)
  + Cardinality({j \in Scopes : c.orig[j] = PipeOf(i)})

\* The connection descriptor the server was started with.
Conn == [scheme |-> "PostgreSQL", rest |-> "//user@dbhost/sales"]

\* str.lower() on the schemes in use.
Lower(s) == IF s = "PostgreSQL" THEN "postgresql" ELSE s

\* db_type = (urlparse(conn).scheme or "").lower()
DbType(conn) == Lower(conn.scheme)

\* raise RuntimeError(error_msg): the exception has the message and nothing
\* of the vendor it was called with.
HandleConnectorxError(error_msg, vendor) == error_msg

\* msg = str(e); if stderr_txt: msg = f"{msg}\n{stderr_txt}"
ErrorMessage(text, stderr_txt) ==
  IF stderr_txt = <<>> THEN text ELSE text \o <<"\n">> \o stderr_txt

\* _reader: while not self._stop_event.is_set()
ReaderCheck(i) ==
  /\ cap.reader[i] = "check"
  /\ cap' = Forget([cap EXCEPT !.reader[i] = IF cap.stop[i] THEN "done" ELSE "read"], i)
  /\ UNCHANGED <<calls, threshold, file, dirExists, req, pc, gen, outBound, cur,
                 pending, headerWritten, tokens, pqWriter, exc, genexc, result, src,
                 diag, hdrWrites, engineCalls, failure, cleanup, pre, prev,
                 encodeCalls, loaded, pqCloses, stale>>

\* _reader: chunk = os.read(read_fd, 4096); self._buffer.append(chunk)
ReaderRead(i) ==
  /\ cap.reader[i] = "read"
  /\ cap.rfd[i]
  /\ cap.pipe[i] # <<>>
  /\ LET n == Min(ReadMax, Len(cap.pipe[i])) IN
       cap' = [cap EXCEPT !.buf[i] = Append(@, SubSeq(cap.pipe[i], 1, n)),
                          !.pipe[i] = SubSeq(@, n + 1, Len(@)),
                          !.reader[i] = "check"]
  /\ UNCHANGED <<calls, threshold, file, dirExists, req, pc, gen, outBound, cur,
                 pending, headerWritten, tokens, pqWriter, exc, genexc, result, src,
                 diag, hdrWrites, engineCalls, failure, cleanup, pre, prev,
                 encodeCalls, loaded, pqCloses, stale>>

\* _reader: os.read returns b"" at end of file (no write end is open), or
\* raises OSError on the closed read_fd; either way the loop breaks.
ReaderEnd(i) ==
  /\ cap.reader[i] = "read"
  /\ \/ ~cap.rfd[i]
     \/ cap.pipe[i] = <<>> /\ WriteEnds(cap, i) = 0
  /\ cap' = Forget([cap EXCEPT !.reader[i] = "done"], i)
  /\ UNCHANGED <<calls, threshold, file, dirExists, req, pc, gen, outBound, cur,
                 pending, headerWritten, tokens, pqWriter, exc, genexc, result, src,
                 diag, hdrWrites, engineCalls, failure, cleanup, pre, prev,
                 encodeCalls, loaded, pqCloses, stale>>

\* ---------------------------------------------------------------- handler: entry
\* The export that does not delete an existing destination first.
Preclear_keep(f) == f

\* out.unlink() at the head of the export: the destination is gone.
Preclear(f) == NoFile

\* Lines 267-289 of handle_call_tool: the argument checks, the read of the SQL
\* file, mkdir of the parent, deletion of an existing destination, and the
\* creation of the (lazy, not yet started) batch generator.
\* A behaviour holds one export and, after a successful one, its repetition
\* with the same arguments, once the first call's generator and reader
\* threads are gone.
Call(r) ==
  /\ pc \in {"idle", "returned"}
  /\ gen \in {"none", "done"}
  /\ \A i \in Scopes : cap.reader[i] \in {"none", "done"}
  /\ calls < MaxCalls
  /\ calls > 0 => IsSuccess(result) /\ r = req
  /\ calls' = calls + 1
  /\ req' = r
  /\ prev' = [req |-> req, src |-> src, ok |-> IsSuccess(result), file |-> file]
  /\ pre' = [file |-> file, dirExists |-> dirExists]
  /\ cur' = NoBatch
  /\ pending' = <<>>
  /\ headerWritten' = FALSE
  /\ tokens' = 0
  /\ pqWriter' = "none"
  /\ genexc' = <<>>
  /\ src' = <<>>
  /\ diag' = <<>>
  /\ hdrWrites' = 0
  /\ engineCalls' = 0
  /\ cleanup' = "none"
  /\ cap' = [CapInit EXCEPT !.fd2 = cap.fd2]
  /\ \/ /\ ~r.args
        /\ result' = MissingArgs
        /\ pc' = "returned"
        /\ exc' = <<>>
        /\ failure' = "none"
        /\ outBound' = FALSE
        /\ gen' = "none"
        /\ UNCHANGED <<file, dirExists>>
     \/ /\ r.args
        /\ ~ShapeOk(r) \/ r.sql_file \in {"nofile", "blank"}
        /\ result' = NoResult
        /\ pc' = "except"
        /\ exc' = IF ~ShapeOk(r) THEN <<"invalid arguments">>
                  ELSE IF r.sql_file = "nofile" THEN ReadErrText
                  ELSE <<"sql is empty">>
        /\ failure' = IF ShapeOk(r) /\ r.sql_file = "nofile" THEN "sqlfile" ELSE "request"
        /\ outBound' = FALSE
        /\ gen' = "none"
        /\ UNCHANGED <<file, dirExists>>
     \/ /\ r.args /\ ShapeOk(r) /\ r.sql_file = "ok"
        /\ result' = NoResult
        /\ outBound' = TRUE
        /\ dirExists' = TRUE
        /\ \/ /\ pc' = "pull_first"
              /\ gen' = "unstarted"
              /\ exc' = <<>>
              /\ failure' = "none"
              /\ file' = IF file.exists THEN Preclear(file) ELSE file
           \/ /\ file.exists
              /\ pc' = "except"
              /\ gen' = "none"
              /\ exc' = UnlinkErrText
              /\ failure' = "preclear"
              /\ file' = file
  /\ encodeCalls' = 0
  /\ pqCloses' = 0
  /\ stale' = (file.exists /\ file'.exists)
  /\ UNCHANGED <<threshold, loaded>>

\* ---------------------------------------------------------------- generator
\* The handler state a yielded batch, or the end of the stream, leads to.
AfterYield(p) ==
  CASE p = "pull_first" -> "got_first"
    [] p = "csv_pull" -> "csv_write"
    [] p = "pq_pull" -> "pq_write"

AfterStop(p) ==
  CASE p = "pull_first" -> "first_none"
    [] p = "csv_pull" -> "csv_end"
    [] p = "pq_pull" -> "pq_end"

\* First next(batches): lines 193-203, up to the call of cx.read_sql inside
\* the first capture scope.
GenStart ==
  /\ pc \in Pulling
  /\ gen = "unstarted"
  /\ gen' = "open"
  /\ cap' = Enter(cap, 1)
  /\ engineCalls' = engineCalls + 1
  /\ UNCHANGED <<calls, threshold, file, dirExists, req, pc, outBound, cur, pending,
                 headerWritten, tokens, pqWriter, exc, genexc, result, src, diag, hdrWrites, failure, cleanup, pre, prev,
                 encodeCalls, loaded, pqCloses, stale>>

\* The native engine writes one byte of diagnostic text to file descriptor 2
\* while cx.read_sql or next(stream) runs; the write blocks while the pipe
\* is full.  The engine is taken to write
\* there only when it is about to fail (the text of a panic): a call that
\* has written goes on to raise.
EngineWrite ==
  /\ pc \in Pulling
  /\ gen \in {"open", "iter"}
  /\ Len(diag) < MaxDiag
  /\ ~Fd2Full(cap)
  /\ diag' = Append(diag, DiagByte(Len(diag) + 1))
  /\ cap' = WriteFd2(cap, <<DiagByte(Len(diag) + 1)>>)
  /\ UNCHANGED <<calls, threshold, file, dirExists, req, pc, gen, outBound, cur,
                 pending, headerWritten, tokens, pqWriter, exc, genexc, result, src,
                 hdrWrites, engineCalls, failure, cleanup, pre, prev,
                 encodeCalls, loaded, pqCloses, stale>>

\* cx.read_sql raises: lines 204-209, then __exit__ up to the join.
OpenFail ==
  /\ pc \in Pulling
  /\ gen = "open"
  /\ genexc' = HandleConnectorxError(ErrorMessage(OpenErrText, GetText(cap, 1)),
                                     DbType(Conn))
  /\ failure' = "open"
  /\ cap' = ExitBegin(cap, 1)
  /\ gen' = "exit1"
  /\ UNCHANGED <<calls, threshold, file, dirExists, req, pc, outBound, cur, pending,
                 headerWritten, tokens, pqWriter, exc, result, src, diag,
                 hdrWrites, engineCalls, cleanup, pre, prev,
                 encodeCalls, loaded, pqCloses, stale>>

\* cx.read_sql returns the stream: the first with block is left.
OpenOk ==
  /\ pc \in Pulling
  /\ gen = "open"
  /\ diag = <<>>
  /\ cap' = ExitBegin(cap, 1)
  /\ gen' = "exit1"
  /\ UNCHANGED <<calls, threshold, file, dirExists, req, pc, outBound, cur, pending,
                 headerWritten, tokens, pqWriter, exc, genexc, result, src, diag, hdrWrites, engineCalls, failure, cleanup, pre, prev,
                 encodeCalls, loaded, pqCloses, stale>>

\* The generator that answers a failed cx.read_sql by starting over.
Exit1Finish_retry ==
  /\ gen = "exit1"
  /\ JoinReturns(cap, 1)
  /\ IF genexc # <<>>
       THEN /\ cap' = ExitFinish(cap, 1)
            /\ gen' = "unstarted"
            /\ genexc' = <<>>
       ELSE /\ cap' = Enter(ExitFinish(cap, 1), 2)
            /\ gen' = "iter"
            /\ UNCHANGED genexc
  /\ UNCHANGED <<calls, threshold, file, dirExists, req, pc, outBound, cur, pending,
                 headerWritten, tokens, pqWriter, exc, result, src, diag,
                 hdrWrites, engineCalls, failure, cleanup, pre, prev,
                 encodeCalls, loaded, pqCloses, stale>>

\* The first scope's __exit__ completes.  A pending exception leaves the
\* generator and reaches the handler; otherwise line 211 enters the second
\* scope and the for loop over the stream starts.
Exit1Finish ==
  /\ gen = "exit1"
  /\ JoinReturns(cap, 1)
  /\ IF genexc # <<>>
       THEN /\ cap' = ExitFinish(cap, 1)
            /\ gen' = "done"
            /\ pc' = "except"
            /\ exc' = genexc
       ELSE /\ cap' = Enter(ExitFinish(cap, 1), 2)
            /\ gen' = "iter"
            /\ UNCHANGED <<pc, exc>>
  /\ UNCHANGED <<calls, threshold, file, dirExists, req, outBound, cur, pending,
                 headerWritten, tokens, pqWriter, genexc, result, src, diag,
                 hdrWrites, engineCalls, failure, cleanup, pre, prev,
                 encodeCalls, loaded, pqCloses, stale>>

\* The data source answers the repetition of a query with the same stream.
Replays(s, e) == prev.ok => Len(s) < Len(prev.src) /\ e = prev.src[Len(s) + 1]

\* next(stream) yields an element: a record batch is yielded as it is, a
\* table is split by to_batches and its first chunk yielded, anything else
\* raises inside the try of line 212 (lines 213-228).
StreamElem(e) ==
  /\ pc \in Pulling
  /\ gen = "iter"
  /\ diag = <<>>
  /\ Len(src) < MaxElems
  /\ Replays(src, e)
  /\ src' = Append(src, e)
  /\ \/ /\ e.kind = "batch"
        /\ cur' = e
        /\ pc' = AfterYield(pc)
        /\ gen' = "susp"
        /\ UNCHANGED <<pending, genexc, failure, cap>>
     \/ /\ e.kind = "table"
        /\ ToBatches(e, req.batch_size) # <<>>
        /\ cur' = Head(ToBatches(e, req.batch_size))
        /\ pending' = Tail(ToBatches(e, req.batch_size))
        /\ pc' = AfterYield(pc)
        /\ gen' = "susp"
        /\ UNCHANGED <<genexc, failure, cap>>
     \/ /\ e.kind = "other"
        /\ genexc' = HandleConnectorxError(
                        ErrorMessage(<<"ConnectorX did not return RecordBatch or Table stream">>,
                                     GetText(cap, 2)),
                        DbType(Conn))
        /\ failure' = "element"
        /\ cap' = ExitBegin(cap, 2)
        /\ gen' = "exit2"
        /\ UNCHANGED <<cur, pending, pc>>
  /\ UNCHANGED <<calls, threshold, file, dirExists, req, outBound, headerWritten,
                 tokens, pqWriter, exc, result, diag, hdrWrites, engineCalls,
                 cleanup, pre, prev,
                 encodeCalls, loaded, pqCloses, stale>>

\* The consumer asks for the next batch while the generator is suspended
\* inside a table's chunks (line 217-218): the next chunk is yielded.
ResumeChunk ==
  /\ pc \in Pulling
  /\ gen = "susp"
  /\ pending # <<>>
  /\ cur' = Head(pending)
  /\ pending' = Tail(pending)
  /\ pc' = AfterYield(pc)
  /\ UNCHANGED <<calls, threshold, file, dirExists, req, gen, outBound, headerWritten,
                 tokens, pqWriter, exc, genexc, result, cap, src, diag,
                 hdrWrites, engineCalls, failure, cleanup, pre, prev,
                 encodeCalls, loaded, pqCloses, stale>>

\* The consumer asks for the next batch and the generator goes back to the
\* for loop's next(stream).
ResumeStream ==
  /\ pc \in Pulling
  /\ gen = "susp"
  /\ pending = <<>>
  /\ gen' = "iter"
  /\ UNCHANGED <<calls, threshold, file, dirExists, req, pc, outBound, cur, pending,
                 headerWritten, tokens, pqWriter, exc, genexc, result, cap, src, diag, hdrWrites, engineCalls, failure, cleanup, pre, prev,
                 encodeCalls, loaded, pqCloses, stale>>

\* next(stream) raises StopIteration: the for loop and the with block end.
StreamEnd ==
  /\ pc \in Pulling
  /\ gen = "iter"
  /\ diag = <<>>
  /\ prev.ok => src = prev.src
  /\ cap' = ExitBegin(cap, 2)
  /\ gen' = "exit2"
  /\ UNCHANGED <<calls, threshold, file, dirExists, req, pc, outBound, cur, pending,
                 headerWritten, tokens, pqWriter, exc, genexc, result, src, diag, hdrWrites, engineCalls, failure, cleanup, pre, prev,
                 encodeCalls, loaded, pqCloses, stale>>

\* next(stream) raises: lines 223-228, then __exit__ up to the join.
StreamFail ==
  /\ pc \in Pulling
  /\ gen = "iter"
  /\ genexc' = HandleConnectorxError(ErrorMessage(IterErrText, GetText(cap, 2)),
                                     DbType(Conn))
  /\ failure' = "iter"
  /\ cap' = ExitBegin(cap, 2)
  /\ gen' = "exit2"
  /\ UNCHANGED <<calls, threshold, file, dirExists, req, pc, outBound, cur, pending,
                 headerWritten, tokens, pqWriter, exc, result, src, diag,
                 hdrWrites, engineCalls, cleanup, pre, prev,
                 encodeCalls, loaded, pqCloses, stale>>

\* writer.close() in the finally of _write_parquet_batches.
CloseWriter(f) == [f EXCEPT !.footer = TRUE]

\* The writer whose finally clause forgets the handle.
Finally_leak(w) == w

\* finally: if writer is not None: writer.close()
Finally(w) == IF w = "open" THEN "closed" ELSE w

\* The close() calls the finally clause makes for handle w, and the file
\* it leaves.
Closes(w) == IF Finally(w) # w THEN 1 ELSE 0
FileAfterFinally(w, f) == IF Finally(w) # w THEN CloseWriter(f) ELSE f

\* The second scope's __exit__ completes and the generator ends: with
\* StopIteration, with the exception for the consumer (which passes through
\* the finally of _write_parquet_batches on its way to the handler), or,
\* when the generator was closed by its finalizer, with an exception that
\* nobody receives.
Exit2Finish ==
  /\ gen = "exit2"
  /\ JoinReturns(cap, 2)
  /\ cap' = ExitFinish(cap, 2)
  /\ gen' = "done"
  /\ IF pc = "returned"
       THEN UNCHANGED <<pc, exc, file, pqWriter, pqCloses>>
       ELSE IF genexc # <<>>
         THEN /\ pc' = "except"
              /\ exc' = genexc
              /\ file' = FileAfterFinally(pqWriter, file)
              /\ pqWriter' = Finally(pqWriter)
              /\ pqCloses' = pqCloses + Closes(pqWriter)
         ELSE /\ pc' = AfterStop(pc)
              /\ UNCHANGED <<exc, file, pqWriter, pqCloses>>
  /\ UNCHANGED <<calls, threshold, dirExists, req, outBound, cur, pending,
                 headerWritten, tokens, genexc, result, src, diag, hdrWrites,
                 engineCalls, failure, cleanup, pre, prev,
                 encodeCalls, loaded, stale>>

\* The suspended generator is finalized once the handler has returned and
\* nothing refers to it: GeneratorExit is raised at the yield, caught by
\* line 223, turned into a RuntimeError by line 228, and the with block is
\* left.  When this happens is up to the interpreter's garbage collection.
GenFinalize ==
  /\ pc = "returned"
  /\ gen = "susp"
  /\ genexc' = HandleConnectorxError(ErrorMessage(<<>>, GetText(cap, 2)), DbType(Conn))
  /\ cap' = ExitBegin(cap, 2)
  /\ gen' = "exit2"
  /\ UNCHANGED <<calls, threshold, file, dirExists, req, pc, outBound, cur, pending,
                 headerWritten, tokens, pqWriter, exc, result, src, diag,
                 hdrWrites, engineCalls, failure, cleanup, pre, prev,
                 encodeCalls, loaded, pqCloses, stale>>

\* ---------------------------------------------------------------- writers
\* threshold = max(0, int(getattr(run_server, "_csv_token_threshold", 0)))
Threshold == IF threshold > 0 THEN threshold ELSE 0

\* The handler that fetches the encoder at a threshold of 0 as well.
Encoder_nonneg == Threshold >= 0

\* An encoder is fetched and passed to the writer when threshold > 0.
Encoder == Threshold > 0

\* encoder.encode calls that _line_tokens makes for the lines ls: one a
\* line with an encoder, none without.
EncodeCalls(encoder, ls) == IF encoder THEN Len(ls) ELSE 0

\* The comparison that lets a total equal to the threshold pass.
TooMany_strict(total, th) == total > th

\* total_tokens >= threshold
TooMany(total, th) == total >= th

\* chain_batches that forgets the batch pulled to test emptiness.
ChainFirst_skip(fmt) == IF fmt = "csv" THEN "csv_pull" ELSE "pq_pull"

\* chain_batches: its first yield hands the already pulled first batch to
\* the writer, before anything more is pulled from the generator.
ChainFirst(fmt) == IF fmt = "csv" THEN "csv_write" ELSE "pq_write"

\* The writer that puts the header before the rows of every batch.
CsvLines_everyBatch(hw, b, k) ==
  <<FormatHeader(Names(b.schema))>> \o [i \in 1..k |-> FormatRow(b.rows[i])]

\* The writer that holds the header back until a batch has a row.
CsvLines_lazyHeader(hw, b, k) ==
  (IF hw \/ k = 0 THEN <<>> ELSE <<FormatHeader(Names(b.schema))>>)
  \o [i \in 1..k |-> FormatRow(b.rows[i])]

\* The lines _write_csv_batches appends for one batch when it writes k of
\* its rows: the header unless header_written, then the rows.
CsvLines(hw, b, k) ==
  (IF hw THEN <<>> ELSE <<FormatHeader(Names(b.schema))>>)
  \o [i \in 1..k |-> FormatRow(b.rows[i])]

RECURSIVE SumTokens(_, _)
SumTokens(enc, ls) ==
  IF ls = <<>> THEN 0 ELSE LineTokens(enc, Head(ls)) + SumTokens(enc, Tail(ls))

\* The comparison that accepts every schema.
SchemaEquals_any(a, b) == TRUE

\* table.schema.equals(writer.schema)
SchemaEquals(a, b) == a = b

\* The first batch is there (lines 301-310, 316, 323-328): the writer is
\* called with chain_batches().  The delimited-text writer computes
\* header_written from the destination and opens it for appending (lines
\* 68-82), which may fail.
HandlerFirst ==
  /\ pc = "got_first"
  /\ \/ /\ req.output_format = "csv"
        /\ headerWritten' = NonEmpty(file)
        /\ file' = IF file.exists THEN file ELSE EmptyText
        /\ pc' = ChainFirst("csv")
        /\ loaded' = (loaded \/ Encoder)
        /\ UNCHANGED <<exc, failure>>
     \/ /\ req.output_format = "csv"
        /\ pc' = "except"
        /\ exc' = WriteErrText
        /\ failure' = "writer"
        /\ loaded' = (loaded \/ Encoder)
        /\ UNCHANGED <<headerWritten, file>>
     \/ /\ req.output_format = "parquet"
        /\ pc' = ChainFirst("parquet")
        /\ UNCHANGED <<headerWritten, file, exc, failure, loaded>>
  /\ UNCHANGED <<calls, threshold, dirExists, req, gen, outBound, cur, pending,
                 tokens, pqWriter, genexc, result, cap, src, diag, hdrWrites,
                 engineCalls, cleanup, pre, prev,
                 encodeCalls, pqCloses, stale>>

\* One iteration of the for loop of _write_csv_batches (lines 83-92).
CsvWriteBatch ==
  /\ pc = "csv_write"
  /\ file' = [file EXCEPT !.lines = @ \o CsvLines(headerWritten, cur, Len(cur.rows))]
  /\ tokens' = tokens + SumTokens(Encoder, CsvLines(headerWritten, cur, Len(cur.rows)))
  /\ hdrWrites' = hdrWrites + Len(CsvLines(headerWritten, cur, Len(cur.rows))) - Len(cur.rows)
  /\ encodeCalls' = encodeCalls
                      + EncodeCalls(Encoder, CsvLines(headerWritten, cur, Len(cur.rows)))
  /\ headerWritten' = TRUE
  /\ pc' = "csv_pull"
  /\ UNCHANGED <<calls, threshold, dirExists, req, gen, outBound, cur, pending,
                 pqWriter, exc, genexc, result, cap, src, diag, engineCalls,
                 failure, cleanup, pre, prev,
                 loaded, pqCloses, stale>>

\* The same iteration when writerow raises after k rows of the batch: the
\* with block closes the file and the exception reaches the handler.
CsvWriteFail ==
  /\ pc = "csv_write"
  /\ \E k \in 0..Len(cur.rows) :
       /\ k < Len(cur.rows) \/ k = 0
       /\ file' = [file EXCEPT !.lines = @ \o CsvLines(headerWritten, cur, k)]
       /\ hdrWrites' = hdrWrites + Len(CsvLines(headerWritten, cur, k)) - k
       /\ encodeCalls' = encodeCalls + EncodeCalls(Encoder, CsvLines(headerWritten, cur, k))
  /\ pc' = "except"
  /\ exc' = WriteErrText
  /\ failure' = "writer"
  /\ UNCHANGED <<calls, threshold, dirExists, req, gen, outBound, cur, pending,
                 headerWritten, tokens, pqWriter, genexc, result, cap, src, diag, engineCalls, cleanup, pre, prev,
                 loaded, pqCloses, stale>>

\* _write_csv_batches returns (line 93) and the handler answers (lines
\* 311-316, 330).
CsvEnd ==
  /\ pc = "csv_end"
  /\ pc' = "returned"
  /\ result' = IF Threshold > 0
                 THEN IF TooMany(tokens, Threshold)
                        THEN WarnResult(tokens) ELSE TokResult(tokens)
                 ELSE OkResult
  /\ UNCHANGED <<calls, threshold, file, dirExists, req, gen, outBound, cur, pending,
                 headerWritten, tokens, pqWriter, exc, genexc, cap, src, diag,
                 hdrWrites, engineCalls, failure, cleanup, pre, prev,
                 encodeCalls, loaded, pqCloses, stale>>

\* One iteration of the for loop of _write_parquet_batches (lines 99-106):
\* the writer is created for the first batch, a later batch is compared
\* with the writer's schema, and the batch is written as a row group.  On a
\* mismatch the finally clause closes the writer.
PqWriteBatch ==
  /\ pc = "pq_write"
  /\ \/ /\ pqWriter = "none"
        /\ file' = [NewParquet(cur.schema) EXCEPT !.groups = <<cur.rows>>]
        /\ pqWriter' = "open"
        /\ pc' = "pq_pull"
        /\ UNCHANGED <<exc, failure, pqCloses>>
     \/ /\ pqWriter = "open"
        /\ SchemaEquals(cur.schema, file.schema)
        /\ file' = [file EXCEPT !.groups = Append(@, cur.rows)]
        /\ pc' = "pq_pull"
        /\ UNCHANGED <<pqWriter, exc, failure, pqCloses>>
     \/ /\ pqWriter = "open"
        /\ ~SchemaEquals(cur.schema, file.schema)
        /\ file' = FileAfterFinally(pqWriter, file)
        /\ pqWriter' = Finally(pqWriter)
        /\ pqCloses' = pqCloses + Closes(pqWriter)
        /\ pc' = "except"
        /\ exc' = <<"Schema mismatch across record batches">>
        /\ failure' = "writer"
  /\ stale' = (stale /\ pqWriter # "none")
  /\ UNCHANGED <<calls, threshold, dirExists, req, gen, outBound, cur, pending,
                 headerWritten, tokens, genexc, result, cap, src, diag,
                 hdrWrites, engineCalls, cleanup, pre, prev,
                 encodeCalls, loaded>>

\* The same iteration when pq.ParquetWriter(...) raises (no writer, nothing
\* to close) or write_table raises (the finally clause closes the writer).
PqWriteFail ==
  /\ pc = "pq_write"
  /\ \/ /\ pqWriter = "none"
        /\ UNCHANGED <<file, pqWriter, pqCloses>>
     \/ /\ pqWriter = "none"
        /\ file' = FileAfterFinally("open", NewParquet(cur.schema))
        /\ pqWriter' = Finally("open")
        /\ pqCloses' = pqCloses + Closes("open")
     \/ /\ pqWriter = "open"
        /\ SchemaEquals(cur.schema, file.schema)
        /\ file' = FileAfterFinally(pqWriter, file)
        /\ pqWriter' = Finally(pqWriter)
        /\ pqCloses' = pqCloses + Closes(pqWriter)
  /\ pc' = "except"
  /\ exc' = WriteErrText
  /\ failure' = "writer"
  /\ stale' = (stale /\ file' = file)
  /\ UNCHANGED <<calls, threshold, dirExists, req, gen, outBound, cur, pending,
                 headerWritten, tokens, genexc, result, cap, src, diag,
                 hdrWrites, engineCalls, cleanup, pre, prev,
                 encodeCalls, loaded>>

\* The batches are exhausted: the finally clause closes the writer (lines
\* 107-109) and the handler answers OK (line 330).
PqEnd ==
  /\ pc = "pq_end"
  /\ file' = FileAfterFinally(pqWriter, file)
  /\ pqWriter' = Finally(pqWriter)
  /\ pqCloses' = pqCloses + Closes(pqWriter)
  /\ pc' = "returned"
  /\ result' = OkResult
  /\ UNCHANGED <<calls, threshold, dirExists, req, gen, outBound, cur, pending,
                 headerWritten, tokens, exc, genexc, cap, src, diag,
                 hdrWrites, engineCalls, failure, cleanup, pre, prev,
                 encodeCalls, loaded, stale>>

\* pq.write_table(pa.table({}), out): a closed file of the empty schema.
EmptyParquet == CloseWriter(NewParquet(<<>>))

\* next(batches, None) gave None (lines 295-300, 320-322, 330): an empty
\* text file, or a columnar file of the empty table, is written.
FirstNone ==
  /\ pc = "first_none"
  /\ \/ /\ file' = IF req.output_format = "csv" THEN EmptyText ELSE EmptyParquet
        /\ pc' = "returned"
        /\ result' = IF req.output_format = "csv" /\ Threshold > 0
                       THEN TokResult(0) ELSE OkResult
        /\ UNCHANGED <<exc, failure>>
     \/ /\ file' \in {file, IF req.output_format = "csv" THEN EmptyText
                            ELSE NewParquet(<<>>)}
        /\ pc' = "except"
        /\ exc' = WriteErrText
        /\ failure' = "writer"
        /\ UNCHANGED result
  /\ stale' = (stale /\ file' = file)
  /\ UNCHANGED <<calls, threshold, dirExists, req, gen, outBound, cur, pending,
                 headerWritten, tokens, pqWriter, genexc, cap, src, diag,
                 hdrWrites, engineCalls, cleanup, pre, prev,
                 encodeCalls, loaded, pqCloses>>

\* ---------------------------------------------------------------- handler: failure
\* The cleanup that does not ask whether `out` was ever bound.
CleanupWanted_unbound(bound, f) == f.exists

\* "out" in locals() and isinstance(out, Path) and out.exists()
CleanupWanted(bound, f) == bound /\ f.exists

\* The cleanup that leaves the file where it is.
CleanupDelete_keep(f) == f

\* out.unlink() in the except clause, when it succeeds.
CleanupDelete(f) == NoFile

\* The handler that reports the failure of its own cleanup.
DetailedMsg_cleanup(e, c) == IF c = "failed" THEN UnlinkErrText ELSE e

\* except Exception: pass, then detailed_msg = str(e): the text of the
\* exception that was caught, whatever became of the cleanup.
DetailedMsg(e, c) == e

\* The except clause (lines 331-347): best-effort deletion of the
\* destination, the traceback printed to sys.stderr (file descriptor 2,
\* wherever it points), and the error result.
HandlerExcept ==
  /\ pc = "except"
  /\ \/ /\ CleanupWanted(outBound, file)
        /\ file' = CleanupDelete(file)
        /\ cleanup' = "deleted"
     \/ /\ CleanupWanted(outBound, file)
        /\ file' = file
        /\ cleanup' = "failed"
     \/ /\ ~CleanupWanted(outBound, file)
        /\ file' = file
        /\ cleanup' = "nothing"
  /\ stale' = (stale /\ file'.exists)
  /\ ~Fd2Full(cap)
  /\ cap' = WriteFd2(cap, <<"T">>)
  /\ result' = ErrResult(DetailedMsg(exc, cleanup'))
  /\ pc' = "returned"
  /\ UNCHANGED <<calls, threshold, dirExists, req, gen, outBound, cur, pending,
                 headerWritten, tokens, pqWriter, exc, genexc, src, diag,
                 hdrWrites, engineCalls, failure, pre, prev,
                 encodeCalls, loaded, pqCloses>>

\* ---------------------------------------------------------------- specification
Next ==
  \/ \E r \in Requests : Call(r)
  \/ GenStart
  \/ EngineWrite
  \/ OpenFail
  \/ OpenOk
  \/ Exit1Finish
  \/ \E e \in Elements : StreamElem(e)
  \/ ResumeChunk
  \/ ResumeStream
  \/ StreamEnd
  \/ StreamFail
  \/ Exit2Finish
  \/ GenFinalize
  \/ HandlerFirst
  \/ CsvWriteBatch
  \/ CsvWriteFail
  \/ CsvEnd
  \/ PqWriteBatch
  \/ PqWriteFail
  \/ PqEnd
  \/ FirstNone
  \/ HandlerExcept
  \/ \E i \in Scopes : ReaderCheck(i)
  \/ \E i \in Scopes : ReaderRead(i)
  \/ \E i \in Scopes : ReaderEnd(i)

Spec == Init /\ [][Next]_vars

\* The reader threads are daemon threads the interpreter keeps scheduling,
\* and __exit__ goes on once its join has returned.  Nothing is assumed of
\* the engine or of the handler: a native call may stall for ever.
Fairness ==
  /\ \A i \in Scopes : WF_vars(ReaderCheck(i))
  /\ \A i \in Scopes : WF_vars(ReaderRead(i))
  /\ \A i \in Scopes : WF_vars(ReaderEnd(i))
  /\ WF_vars(Exit1Finish)
  /\ WF_vars(Exit2Finish)

\* One export of a request that finds an old file at its destination and
\* asks for no cost estimate: what the capture scopes do does not depend on
\* the choices left out.
FairInit == Init /\ threshold = 0 /\ file = StaleFile

FairNext == Next /\ calls' <= 1

FairSpec == FairInit /\ [][FairNext]_vars /\ Fairness

\* ---------------------------------------------------------------- properties
\* The rows of the elements the stream produced, in order.
SourceRows == Flatten([i \in DOMAIN src |-> src[i].rows])

RECURSIVE AllBatches(_, _)
\* The batches the generator makes of a sequence of stream elements.
AllBatches(es, n) ==
  IF es = <<>> THEN <<>>
  ELSE (IF Head(es).kind = "batch" THEN <<Head(es)>>
        ELSE IF Head(es).kind = "table" THEN ToBatches(Head(es), n)
        ELSE <<>>) \o AllBatches(Tail(es), n)

\* The batches the generator has yielded so far.
Yielded ==
  SubSeq(AllBatches(src, req.batch_size), 1,
         Len(AllBatches(src, req.batch_size)) - Len(pending))

\* The failures of the batch source and of the writers.
ExportFailures == {"open", "iter", "element", "writer"}

\* C1: when an export has failed at the query's open call, during iteration
\* or inside a writer, and the cleanup deletion did not fail, no destination
\* file exists once the handler has returned its error result.
C1_NoPartialOutput ==
  (pc = "returned" /\ failure \in ExportFailures /\ cleanup # "failed")
    => ~file.exists /\ result.kind = "error"

\* A delimited-text export whose second batch failed in the writer, after the
\* first was written, and whose destination was deleted by the cleanup.
C1_Witness ==
  /\ pc = "returned"
  /\ failure = "writer"
  /\ cleanup = "deleted"
  /\ req.output_format = "csv"
  /\ Len(src) = 2

\* C2: whenever the handler has returned a result, file descriptor 2 is the
\* original stream again: no capture scope is still active.
C2_ScopesReleased == pc = "returned" => cap.fd2 = "stderr"

\* C3: when the engine failed after writing diagnostic text to the redirected
\* stream, the error message holds the failure's text and all of that text.
C3_DiagnosticInMessage ==
  (pc = "returned" /\ failure \in {"open", "iter"} /\ diag # <<>>)
    => /\ Contains(result.msg, IF failure = "open" THEN OpenErrText ELSE IterErrText)
       /\ Contains(result.msg, Decode(diag))

\* C4: after a successful delimited-text export of at least one batch, the
\* header was written once, is the first line of the destination, and is the
\* first batch's column names in order.
C4_HeaderOnce ==
  (pc = "returned" /\ IsSuccess(result) /\ req.output_format = "csv" /\ src # <<>>)
    => /\ hdrWrites = 1
       /\ file.exists
       /\ file.lines # <<>>
       /\ Head(file.lines) = FormatHeader(Names(src[1].schema))

\* A successful delimited-text export of two batches.
C4_Witness ==
  /\ pc = "returned"
  /\ IsSuccess(result)
  /\ req.output_format = "csv"
  /\ Len(src) = 2
  /\ src[1].rows # <<>>
  /\ src[2].rows # <<>>

\* C5: after a successful export of a non-empty result, in either format, the
\* rows in the destination are the rows of the source's batches, in source
\* order, each once.
C5_RowsPreserved ==
  (pc = "returned" /\ IsSuccess(result) /\ src # <<>>)
    => IF req.output_format = "csv"
         THEN /\ Len(file.lines) = 1 + Len(SourceRows)
              /\ \A i \in DOMAIN SourceRows : file.lines[i + 1] = FormatRow(SourceRows[i])
         ELSE /\ Flatten(file.groups) = SourceRows
              /\ file.footer

\* A successful columnar export of a table that was split and a batch.
C5_Witness ==
  /\ pc = "returned"
  /\ IsSuccess(result)
  /\ req.output_format = "parquet"
  /\ Len(SourceRows) = 5

\* C6: no export whose batches differ in schema ends in success.
C6_MismatchFails ==
  (pc = "returned" /\ IsSuccess(result))
    => \A i \in DOMAIN src : src[i].schema = src[1].schema

\* The first batch, if any, whose schema is not the first batch's.
MismatchAt(bs) ==
  IF \E k \in DOMAIN bs : bs[k].schema # bs[1].schema
    THEN CHOOSE k \in DOMAIN bs :
           /\ bs[k].schema # bs[1].schema
           /\ \A j \in 1..(k - 1) : bs[j].schema = bs[1].schema
    ELSE 0

\* C7: in a columnar export, once the writer has dealt with a batch k whose
\* schema is not the first batch's, the destination is absent, or is closed
\* and holds the row groups of batches 1..k-1 and nothing else.
C7_MismatchAborts ==
  (/\ req.output_format = "parquet"
   /\ MismatchAt(Yielded) > 0
   /\ pc \notin {"pq_write", "got_first"})
    => \/ ~file.exists
       \/ /\ file.footer
          /\ file.groups = [j \in 1..(MismatchAt(Yielded) - 1) |-> Yielded[j].rows]

\* The writer raised the mismatch on the third batch and the closed file
\* holds the two row groups before it.
C7_Witness ==
  /\ req.output_format = "parquet"
  /\ pc = "except"
  /\ MismatchAt(Yielded) = 3
  /\ file.exists
  /\ file.footer
  /\ Len(file.groups) = 2

\* C8 as stated: a successful delimited-text export of a result without rows
\* leaves a destination of zero bytes.
C8_ZeroRowsZeroBytes ==
  (pc = "returned" /\ IsSuccess(result) /\ req.output_format = "csv" /\ SourceRows = <<>>)
    => file.exists /\ file.lines = <<>>

\* C8, amended: a delimited-text export of a result without rows that meets
\* no failure succeeds; the destination is zero bytes when the source yields
\* no batch, and is the header line alone when it yields batches without rows.
C8_ZeroRows ==
  (/\ pc = "returned"
   /\ req.args /\ ShapeOk(req) /\ req.sql_file = "ok"
   /\ req.output_format = "csv"
   /\ failure = "none"
   /\ SourceRows = <<>>)
    => /\ IsSuccess(result)
       /\ file.exists
       /\ file.lines = IF src = <<>> THEN <<>>
                       ELSE <<FormatHeader(Names(src[1].schema))>>

\* A successful delimited-text export of batches without rows.
C8_Witness ==
  /\ pc = "returned"
  /\ IsSuccess(result)
  /\ req.output_format = "csv"
  /\ src # <<>>
  /\ SourceRows = <<>>

\* C9: when a successful export is repeated with the same arguments and the
\* same stream, and succeeds again, the destination holds what it held after
\* the first run.
C9_Idempotent ==
  (/\ pc = "returned"
   /\ IsSuccess(result)
   /\ prev.ok
   /\ prev.req = req
   /\ prev.src = src)
    => file = prev.file

\* The repetition of a delimited-text export of a non-empty result, which
\* found the first run's output at the destination.
C9_Witness ==
  /\ pc = "returned"
  /\ calls = 2
  /\ IsSuccess(result)
  /\ prev.ok
  /\ req.output_format = "csv"
  /\ SourceRows # <<>>
  /\ file.lines # <<>>

\* Requests of invalid shape: an argument missing, a format that is neither
\* csv nor parquet, or a query that is blank.
InvalidShape(r) == r.args /\ (~ShapeOk(r) \/ r.sql_file = "blank")

\* C10: an export of invalid shape touches nothing: the destination and its
\* parent directory stay as the call found them, the generator is never
\* created, the engine never called, and the call returns an error.
C10_InvalidTouchesNothing ==
  (calls > 0 /\ InvalidShape(req))
    => /\ file = pre.file
       /\ dirExists = pre.dirExists
       /\ engineCalls = 0
       /\ gen = "none"
       /\ pc = "returned" => result.kind = "error"

\* A blank query was refused while a file was at the destination.
C10_Witness ==
  /\ pc = "returned"
  /\ req.sql_file = "blank"
  /\ pre.file.exists
  /\ file.exists
  /\ cleanup = "nothing"

\* A capture scope that was entered and whose __exit__ has completed.
TornDown(i) == cap.reader[i] # "none" /\ cap.orig[i] = "none" /\ ~cap.rfd[i]

\* C11: once a scope's __exit__ has completed, its reader thread has ended.
C11_ReaderEndsWithScope ==
  \A i \in Scopes : TornDown(i) => cap.reader[i] = "done"

\* __exit__ of scope i has started (the stop event is set) and has not yet
\* restored file descriptor 2.
TearingDown(i) == cap.stop[i] /\ cap.orig[i] # "none"

\* The engine is inside a native call and the pipe behind fd 2 is full.
WriteBlocked == pc \in Pulling /\ gen \in {"open", "iter"} /\ Fd2Full(cap)

\* C12: under fair scheduling of the reader threads, a teardown that has
\* started completes (also when nothing was written and the reader is
\* blocked in its read), and a full pipe is drained so that a blocked write
\* of the engine can go on.
C12_NoDeadlock ==
  /\ \A i \in Scopes : TearingDown(i) ~> ~TearingDown(i)
  /\ WriteBlocked ~> ~WriteBlocked

\* The engine wrote more than the pipe holds, so a write waited for the
\* reader, and the scope has been torn down with fd 2 restored.
C12_Witness ==
  /\ Len(diag) > PipeCap
  /\ gen = "done"
  /\ cap.fd2 = "stderr"
  /\ \E i \in Scopes : TornDown(i)

\* The texts an export's failure of kind k starts with.
FailureTexts(k) ==
  CASE k = "open" -> {OpenErrText}
    [] k = "iter" -> {IterErrText}
    [] k = "element" -> {<<"ConnectorX did not return RecordBatch or Table stream">>}
    [] k = "writer" -> {WriteErrText, <<"Schema mismatch across record batches">>}
    [] k = "preclear" -> {UnlinkErrText}
    [] k = "sqlfile" -> {ReadErrText}
    [] OTHER -> {<<"invalid arguments">>, <<"sql is empty">>}

\* C13: when the cleanup's deletion of the destination fails, the failure is
\* swallowed: the call still returns an error result, and its message is
\* that of the failure that ended the export.
C13_CleanupFailureSwallowed ==
  (pc = "returned" /\ cleanup = "failed") =>
    /\ result = ErrResult(exc)
    /\ \E t \in FailureTexts(failure) :
         SubSeq(result.msg, 2, Len(t) + 1) = t

\* A writer failed after rows had reached the file, and the file could not
\* be deleted.
C13_Witness ==
  /\ pc = "returned"
  /\ cleanup = "failed"
  /\ failure = "writer"
  /\ file.exists
  /\ result.kind = "error"

\* C14: a failure of the engine, at the opening of the query or during the
\* iteration, reaches the caller as an error that carries the vendor taken
\* from the connection's scheme together with the engine's message.
C14_EngineErrorCarriesVendor ==
  (pc = "returned" /\ failure \in {"open", "iter"}) =>
    /\ result.kind = "error"
    /\ \E t \in FailureTexts(failure) : SubSeq(result.msg, 2, Len(t) + 1) = t
    /\ Contains(result.msg, <<DbType(Conn)>>)

\* A call with the tool's arguments present and well formed.
ValidRequest(r) == r.args /\ ShapeOk(r)

\* C15: with a threshold of 0 or less the tokenizer is never loaded and
\* never invoked, and a CSV export that succeeds answers the plain success;
\* with a positive threshold a CSV export in which nothing failed answers a
\* success, annotated or not, whose total is the sum of the token counts of
\* all the lines of the file, header included.
C15_CostOnlyWhenAsked ==
  /\ threshold <= 0 => encodeCalls = 0 /\ ~loaded
  /\ (pc = "returned" /\ failure = "none" /\ ValidRequest(req)
        /\ req.output_format = "csv") =>
       IF threshold <= 0
         THEN result = OkResult
         ELSE /\ result.kind \in {"ok_tokens", "ok_too_many"}
              /\ result.total = SumTokens(TRUE, file.lines)
              /\ encodeCalls = Len(file.lines)

\* A CSV export of a header and two rows or more whose total exceeds the
\* positive threshold.
C15_Witness ==
  /\ pc = "returned"
  /\ req.output_format = "csv"
  /\ threshold > 0
  /\ Len(file.lines) >= 3
  /\ result.kind = "ok_too_many"
  /\ result.total > threshold
  /\ encodeCalls >= 3

\* C20: with a positive threshold a successful CSV export carries the
\* annotation exactly when its total is at least the threshold, a total
\* equal to the threshold included; an empty result reports a total of 0
\* without the annotation.
C20_AnnotationBoundary ==
  (pc = "returned" /\ IsSuccess(result) /\ ValidRequest(req)
     /\ req.output_format = "csv" /\ threshold > 0) =>
    /\ result.kind = "ok_too_many" <=> result.total >= threshold
    /\ result.kind = "ok_tokens" <=> result.total < threshold
    /\ src = <<>> => result = TokResult(0)

\* An export whose total is exactly the threshold, answered with the
\* annotation.
C20_Witness ==
  /\ pc = "returned"
  /\ req.output_format = "csv"
  /\ threshold > 0
  /\ result.kind = "ok_too_many"
  /\ result.total = threshold

\* An export that wrote a header only and stays below the threshold.
C20_Below ==
  /\ pc = "returned"
  /\ threshold > 0
  /\ result.kind = "ok_tokens"
  /\ result.total > 0

\* C16: nothing is retried.  The engine's execution call is made at most
\* once in an export; from the first failure on, no further call of the
\* engine is made, nothing more is pulled from the stream and no line or
\* row group is added to the file; and the call that failed returns an
\* error.
C16_NoRetry ==
  /\ [](engineCalls <= 1)
  /\ [][failure # "none" =>
         /\ engineCalls' = engineCalls
         /\ src' = src /\ cur' = cur /\ pending' = pending
         /\ Len(file'.lines) <= Len(file.lines)
         /\ Len(file'.groups) <= Len(file.groups)
         /\ failure' = failure]_vars
  /\ []((pc = "returned" /\ failure # "none") => result.kind = "error")

\* The stream failed after a batch had been written, and the call has
\* returned its error.
C16_Witness ==
  /\ pc = "returned"
  /\ failure = "iter"
  /\ Len(src) >= 1
  /\ engineCalls = 1
  /\ result.kind = "error"

\* The handler is inside _write_parquet_batches.
InParquetWriter == pc \in {"pq_write", "pq_pull", "pq_end"}

\* C17: a columnar writer handle that was opened is closed exactly once by
\* the time the write operation has returned or raised, whatever ended it:
\* the end of the batches, a schema mismatch, a failing write, or a failure
\* of the batch sequence in mid-stream.  It is never closed while the write
\* goes on and never closed twice.
C17_WriterClosedOnce ==
  /\ pqCloses <= 1
  /\ InParquetWriter => pqCloses = 0
  /\ (req.output_format = "parquet" /\ pc \in {"except", "returned"}) =>
       /\ pqWriter # "open"
       /\ pqCloses = (IF pqWriter = "closed" THEN 1 ELSE 0)
       /\ file.exists /\ file.fmt = "parquet" /\ file.groups # <<>> => file.footer

\* The stream failed after a row group had been written: the exception
\* passed through the finally clause and the handle is closed.
C17_Witness ==
  /\ req.output_format = "parquet"
  /\ pc = "except"
  /\ failure = "iter"
  /\ pqWriter = "closed"
  /\ pqCloses = 1
  /\ file.groups # <<>>

\* Scope i is active: entered, and its saved descriptor not yet restored.
ScopeOpen(i) == cap.orig[i] # "none"

\* C18: the two capture scopes of an export never overlap.  At most one is
\* active; while the second is active the first has restored fd 2 and
\* closed its descriptors; and the descriptor the second saved as the
\* original is the process's error stream, not the first scope's pipe.
C18_ScopesDisjoint ==
  /\ ~(ScopeOpen(1) /\ ScopeOpen(2))
  /\ ScopeOpen(2) =>
       /\ cap.orig[2] = "stderr"
       /\ ~cap.rfd[1] /\ ~cap.wfd[1]
       /\ WriteEnds(cap, 1) = 0
  /\ ScopeOpen(1) => cap.orig[1] = "stderr"

\* The generator is suspended at a yield inside the second scope.
C18_Witness ==
  /\ gen = "susp"
  /\ ScopeOpen(2)
  /\ cap.fd2 = "pipe2"
  /\ cap.orig[2] = "stderr"
  /\ cap.reader[1] # "none"

\* C19 as stated: the old file is deleted before the engine is invoked,
\* and no failed export of a valid request leaves it in place.
C19_FailureClearsOld ==
  /\ engineCalls > 0 => ~stale
  /\ (pc = "returned" /\ ValidRequest(req) /\ req.sql_file = "ok"
        /\ result.kind = "error") => ~stale

\* C19: the file a valid request finds at its destination is deleted
\* before the engine is invoked, so an export that fails at the engine or
\* in a writer does not leave it in place; when the deletion itself fails,
\* the old file is gone only if the cleanup's deletion succeeds.
C19_ClearedBeforeEngine ==
  /\ engineCalls > 0 => ~stale
  /\ (pc = "returned" /\ failure \in ExportFailures) => ~stale
  /\ (pc = "returned" /\ failure = "preclear") => (stale <=> cleanup = "failed")

\* An export that found an old file, invoked the engine and failed.
C19_Witness ==
  /\ pre.file.exists
  /\ pc = "returned"
  /\ failure = "open"
  /\ engineCalls = 1
  /\ ~stale

====
